---- MODULE Spec2Model ----
(***************************************************************************)
(* AnimalGame (src/AnimalGame.py): a 7x7 board game between TANGERINE and  *)
(* AMETHYST.  The state is the AnimalGame object (_board, _turn,           *)
(* _game_state); the one state-changing operation is make_move(start, end).*)
(* Squares are the two-character strings of the source ('a1'), kept as the *)
(* pair <<column letter, row digit>>.                                      *)
(***************************************************************************)
EXTENDS Integers, Sequences, FiniteSets, TLC

(* ------------------------------ bounds --------------------------------- *)
\* Spec: the number of applied moves explored.  The caller's squares are drawn
\* from the columns CallCols, which hold one piece of each archetype per side.
MaxMoves == 2
CallCols == {"a", "b", "c", "d"}
\* SpecWin: the number of applied moves explored.  The caller's squares are
\* drawn from the columns WinCols (a Wombat, an Emu and the Cuttlefish of each
\* side), in which either Cuttlefish can be taken within MaxWinMoves moves.
MaxWinMoves == 3
WinCols == {"b", "c", "d"}

(* --------------------------- board geometry ---------------------------- *)
COLUMNS == <<"a", "b", "c", "d", "e", "f", "g">>
Rows == 1..7
Squares == {<<COLUMNS[i], r>> : i \in 1..Len(COLUMNS), r \in Rows}

\* COLUMNS.index(ch), 0-based as in Python
ColumnsIndex(ch) == (CHOOSE i \in 1..Len(COLUMNS) : COLUMNS[i] = ch) - 1

Abs(x) == IF x < 0 THEN -x ELSE x
Max(a, b) == IF a >= b THEN a ELSE b

(* ------------------------------- pieces -------------------------------- *)
Colors == {"TANGERINE", "AMETHYST"}
Kinds == {"Chinchilla", "Wombat", "Emu", "Cuttlefish"}
Piece(k, c) == [kind |-> k, color |-> c]
Pieces == {Piece(k, c) : k \in Kinds, c \in Colors}
\* Python None (an emptied square) and a key that is not in the dict
None == [kind |-> "None", color |-> "None"]
Absent == [kind |-> "Absent", color |-> "None"]

\* dx, dy of every valid_move: absolute column and row difference
Dx(start, end) == Abs(ColumnsIndex(start[1]) - ColumnsIndex(end[1]))
Dy(start, end) == Abs(start[2] - end[2])

Chinchilla_valid_move(start, end) == Max(Dx(start, end), Dy(start, end)) = 1

Wombat_valid_move(start, end) ==
  LET dx == Dx(start, end)
      dy == Dy(start, end)
      abs_dx == Abs(dx)
      abs_dy == Abs(dy)
  IN (abs_dx = 4 /\ dy = 0) \/ (abs_dy = 4 /\ dx = 0) \/ (abs_dx = 1 /\ abs_dy = 1)

\* variant: orthogonal slides of up to 4 squares
Emu_valid_move_slide_4(start, end) ==
  LET dx == Dx(start, end)
      dy == Dy(start, end)
  IN \/ dx = 0 /\ 1 <= dy /\ dy <= 4
     \/ dy = 0 /\ 1 <= dx /\ dx <= 4
     \/ dx = 1 /\ dy = 1

Emu_valid_move(start, end) ==
  LET dx == Dx(start, end)
      dy == Dy(start, end)
  IN IF dx = 0 /\ 1 <= dy /\ dy <= 3 THEN TRUE
     ELSE IF dy = 0 /\ 1 <= dx /\ dx <= 3 THEN TRUE
     ELSE IF dx = 1 /\ dy = 1 THEN TRUE
     ELSE FALSE

Cuttlefish_valid_move(start, end) ==
  LET dx == Dx(start, end)
      dy == Dy(start, end)
  IN (dx = 2 /\ dy = 2) \/ (dx = 1 /\ dy = 0) \/ (dx = 0 /\ dy = 1)

\* piece.valid_move(start, end, board): dispatch on the piece's class
valid_move(piece, start, end) ==
  CASE piece.kind = "Chinchilla" -> Chinchilla_valid_move(start, end)
    [] piece.kind = "Wombat" -> Wombat_valid_move(start, end)
    [] piece.kind = "Emu" -> Emu_valid_move(start, end)
    [] piece.kind = "Cuttlefish" -> Cuttlefish_valid_move(start, end)

(* -------------------------------- state -------------------------------- *)
VARIABLES
  board,       \* _board: square -> piece, None, or Absent (no such key)
  turn,        \* _turn
  game_state,  \* _game_state
  ret,         \* value returned by the last make_move call ("none" before any)
  line,        \* source line of the return statement that call left by (0 before any)
  moved,       \* start, end, piece and target of the last applied move
  moves        \* number of applied moves (bounds the exploration)

vars == <<board, turn, game_state, ret, line, moved, moves>>

\* variant: the Cuttlefish and an Emu change places in the row
row_order_misplaced == <<"Chinchilla", "Wombat", "Cuttlefish", "Emu", "Emu", "Wombat", "Chinchilla">>

row_order == <<"Chinchilla", "Wombat", "Emu", "Cuttlefish", "Emu", "Wombat", "Chinchilla">>

\* _place_initial_pieces: only the 14 home squares become keys of the dict
InitialBoard ==
  [sq \in Squares |->
     IF sq[2] = 1 THEN Piece(row_order[ColumnsIndex(sq[1]) + 1], "TANGERINE")
     ELSE IF sq[2] = 7 THEN Piece(row_order[ColumnsIndex(sq[1]) + 1], "AMETHYST")
     ELSE Absent]

NoMove == [start |-> <<"-", 0>>, end |-> <<"-", 0>>, piece |-> None, target |-> None]

Init ==
  /\ board = InitialBoard
  /\ game_state = "UNFINISHED"
  /\ turn = "TANGERINE"
  /\ ret = "none"
  /\ line = 0
  /\ moved = NoMove
  /\ moves = 0

get_game_state == game_state

\* dict.get(position): None for a missing key
Get(b, position) == IF b[position] = Absent THEN None ELSE b[position]

(* ----------------------------- _path_clear ----------------------------- *)
\* variant: the step is never negative
Step_unsigned(d) == IF d = 0 THEN 0 ELSE 1

\* lines 243-244
Step(d) == IF d = 0 THEN 0 ELSE IF d > 0 THEN 1 ELSE -1

\* the while loop of _path_clear, from the square (column, row)
RECURSIVE PathScan(_, _, _, _, _, _, _)
PathScan(b, column, row, column_end, row_end, step_column, step_row) ==
  IF column # column_end \/ row # row_end
  THEN IF Get(b, <<COLUMNS[column + 1], row>>) # None
       THEN FALSE
       ELSE PathScan(b, column + step_column, row + step_row,
                     column_end, row_end, step_column, step_row)
  ELSE TRUE

\* variant: the scan never finds an occupied square
path_clear_always(b, start, end) == TRUE

\* variant: the scan begins on the start square itself
path_clear_from_start(b, start, end) ==
  LET column_start == ColumnsIndex(start[1])
      row_start == start[2]
      column_end == ColumnsIndex(end[1])
      row_end == end[2]
  IN PathScan(b, column_start, row_start, column_end, row_end,
              Step(column_end - column_start), Step(row_end - row_start))

\* lines 229-256
path_clear(b, start, end) ==
  LET column_start == ColumnsIndex(start[1])
      row_start == start[2]
      column_end == ColumnsIndex(end[1])
      row_end == end[2]
      dx == column_end - column_start
      dy == row_end - row_start
      step_column == Step(dx)
      step_row == Step(dy)
  IN PathScan(b, column_start + step_column, row_start + step_row,
              column_end, row_end, step_column, step_row)

\* the while loop of _path_clear on squares that never stop it: the indices
\* <<column, row>> it visits, and whether it ends by arriving at the end square.
\* The steps are constant, so indices that have left the board move away from
\* the end square for good: the loop then ends by IndexError at COLUMNS[column]
\* or not at all, and the first such indices close the list
RECURSIVE PathVisits(_, _, _, _, _, _)
PathVisits(column, row, column_end, row_end, step_column, step_row) ==
  IF column # column_end \/ row # row_end
  THEN IF column \notin 0..(Len(COLUMNS) - 1) \/ row \notin Rows
       THEN [visited |-> <<<<column, row>>>>, arrived |-> FALSE]
       ELSE LET rest == PathVisits(column + step_column, row + step_row,
                                   column_end, row_end, step_column, step_row)
            IN [visited |-> <<<<column, row>>>> \o rest.visited, arrived |-> rest.arrived]
  ELSE [visited |-> <<>>, arrived |-> TRUE]

path_visits(start, end) ==
  LET column_start == ColumnsIndex(start[1])
      row_start == start[2]
      column_end == ColumnsIndex(end[1])
      row_end == end[2]
      step_column == Step(column_end - column_start)
      step_row == Step(row_end - row_start)
  IN PathVisits(column_start + step_column, row_start + step_row,
                column_end, row_end, step_column, step_row)

(* ------------------------------ make_move ------------------------------ *)
\* variant: the terminal-status check is missing
GameOver_never == FALSE

\* line 197
GameOver == game_state # "UNFINISHED"

\* variant: only a missing key is tested, not a square emptied to None
NoPieceAt_missing_key_only(start) == board[start] = Absent

\* line 200
NoPieceAt(start) == board[start] = Absent \/ board[start] = None

\* variant: the turn check is missing
WrongTurn_never(piece) == FALSE

\* line 205
WrongTurn(piece) == piece.color # turn

\* variant: any piece on the end square counts as friendly
FriendlyTarget_any(target) == target \in Pieces

\* variant: the friendly-piece check is missing
FriendlyTarget_never(target) == FALSE

\* line 212
FriendlyTarget(target) == target # None /\ target.color = turn

\* variant: the path check is applied to every archetype
IsSliding_all(piece) == TRUE

\* line 216
IsSliding(piece) == piece.kind = "Emu" \/ piece.kind = "Chinchilla"

\* variant: the winner is taken from the captured piece's own colour
StateAfter_swapped(target) ==
  IF target.kind = "Cuttlefish"
  THEN (IF target.color = "AMETHYST" THEN "AMETHYST_WON" ELSE "TANGERINE_WON")
  ELSE game_state

\* variant: capturing a Cuttlefish is not detected
StateAfter_never(target) == game_state

\* lines 221-222
StateAfter(target) ==
  IF target.kind = "Cuttlefish"
  THEN (IF target.color = "AMETHYST" THEN "TANGERINE_WON" ELSE "AMETHYST_WON")
  ELSE game_state

\* variant: the start square is not cleared
BoardAfter_keep_start(start, end, piece) == [board EXCEPT ![end] = piece]

\* lines 224-225
BoardAfter(start, end, piece) == [board EXCEPT ![end] = piece, ![start] = None]

\* variant: the turn is not switched
TurnAfter_stuck == turn

\* variant: the turn is not switched by the move that ends the game
TurnAfter_kept_on_win ==
  IF game_state' # "UNFINISHED" THEN turn
  ELSE IF turn = "TANGERINE" THEN "AMETHYST" ELSE "TANGERINE"

\* line 226
TurnAfter == IF turn = "TANGERINE" THEN "AMETHYST" ELSE "TANGERINE"

\* variant: a rejected call has already switched the turn
Reject_switching_turn(ln) ==
  /\ ret' = "False"
  /\ line' = ln
  /\ turn' = (IF turn = "TANGERINE" THEN "AMETHYST" ELSE "TANGERINE")
  /\ UNCHANGED <<board, game_state, moved, moves>>

\* return False at source line ln
Reject(ln) ==
  /\ ret' = "False"
  /\ line' = ln
  /\ UNCHANGED <<board, turn, game_state, moved, moves>>

\* variant: the winner is read off the end square after the piece was put there
Apply_winner_from_mover(start, end, piece, target, limit) ==
  /\ moves < limit
  /\ board' = BoardAfter(start, end, piece)
  /\ game_state' = StateAfter(board'[end])
  /\ turn' = TurnAfter
  /\ ret' = "True"
  /\ line' = 227
  /\ moved' = [start |-> start, end |-> end, piece |-> piece, target |-> target]
  /\ moves' = moves + 1

\* lines 220-227; at most limit applied moves are explored
Apply(start, end, piece, target, limit) ==
  /\ moves < limit
  /\ game_state' = StateAfter(target)
  /\ board' = BoardAfter(start, end, piece)
  /\ turn' = TurnAfter
  /\ ret' = "True"
  /\ line' = 227
  /\ moved' = [start |-> start, end |-> end, piece |-> piece, target |-> target]
  /\ moves' = moves + 1

\* the checks of lines 197-218 in their order: the source line of the return
\* statement that make_move(start, end) leaves by in the current state
ReturnLine(start, end) ==
  IF GameOver THEN 198
  ELSE IF NoPieceAt(start) THEN 201
  ELSE LET piece == board[start] IN
    IF WrongTurn(piece) THEN 206
    ELSE IF ~valid_move(piece, start, end) THEN 209
    ELSE LET target == Get(board, end) IN
      IF FriendlyTarget(target) THEN 213
      ELSE IF IsSliding(piece) /\ ~path_clear(board, start, end) THEN 218
      ELSE 227

\* COLUMNS.index(ch) raises ValueError when ch is no element of COLUMNS
ColumnsHas(ch) == \E i \in 1..Len(COLUMNS) : COLUMNS[i] = ch

\* the while loop of _path_clear again: TRUE when COLUMNS[column] of line 250
\* raises IndexError (column above 6 or below -7; -7..-1 index from the end)
\* before the loop ends; a position that is no square of the board is a
\* missing key, for which get returns None
RECURSIVE PathScanRaises(_, _, _, _, _, _, _)
PathScanRaises(b, column, row, column_end, row_end, step_column, step_row) ==
  IF column # column_end \/ row # row_end
  THEN IF column > Len(COLUMNS) - 1 \/ column < -Len(COLUMNS)
       THEN TRUE
       ELSE LET letter == IF column >= 0 THEN COLUMNS[column + 1]
                          ELSE COLUMNS[column + Len(COLUMNS) + 1]
                position == <<letter, row>>
            IN IF position \in Squares /\ Get(b, position) # None
               THEN FALSE
               ELSE PathScanRaises(b, column + step_column, row + step_row,
                                   column_end, row_end, step_column, step_row)
  ELSE FALSE

path_clear_raises(b, start, end) ==
  LET column_start == ColumnsIndex(start[1])
      row_start == start[2]
      column_end == ColumnsIndex(end[1])
      row_end == end[2]
      step_column == Step(column_end - column_start)
      step_row == Step(row_end - row_start)
  IN PathScanRaises(b, column_start + step_column, row_start + step_row,
                    column_end, row_end, step_column, step_row)

\* the error make_move(start, end) ends with in the current state, "none" when
\* it returns: KeyError at line 203 (no such key), AttributeError at line 205
\* (color() of None), ValueError at line 208 (COLUMNS.index), IndexError at
\* line 217 (in _path_clear); line 212 calls target.color() only on a piece
Exception(start, end) ==
  IF GameOver \/ NoPieceAt(start) THEN "none"
  ELSE IF board[start] = Absent THEN "KeyError"
  ELSE IF board[start] = None THEN "AttributeError"
  ELSE IF WrongTurn(board[start]) THEN "none"
  ELSE IF ~ColumnsHas(start[1]) \/ ~ColumnsHas(end[1]) THEN "ValueError"
  ELSE IF ~valid_move(board[start], start, end) THEN "none"
  ELSE IF FriendlyTarget(Get(board, end)) THEN "none"
  ELSE IF IsSliding(board[start]) /\ path_clear_raises(board, start, end) THEN "IndexError"
  ELSE "none"

ExceptionLine(exc) ==
  CASE exc = "KeyError" -> 203
    [] exc = "AttributeError" -> 205
    [] exc = "ValueError" -> 208
    [] exc = "IndexError" -> 217

\* the call ends with a thrown error; nothing has been assigned before it
Raise(exc) ==
  /\ ret' = exc
  /\ line' = ExceptionLine(exc)
  /\ UNCHANGED <<board, turn, game_state, moved, moves>>

make_move(start, end, limit) ==
  LET exc == Exception(start, end)
      ln == ReturnLine(start, end)
  IN IF exc # "none" THEN Raise(exc)
     ELSE IF ln = 227
     THEN Apply(start, end, board[start], Get(board, end), limit)
     ELSE Reject(ln)

(* --------------------------- specifications ---------------------------- *)
CallSquares == {sq \in Squares : sq[1] \in CallCols}
WinSquares == {sq \in Squares : sq[1] \in WinCols}

Next == \E start \in CallSquares, end \in CallSquares : make_move(start, end, MaxMoves)
Spec == Init /\ [][Next]_vars

NextWin == \E start \in WinSquares, end \in WinSquares : make_move(start, end, MaxWinMoves)
SpecWin == Init /\ [][NextWin]_vars

(* ------------------------ vocabulary of the claims ---------------------- *)
Other(color) == IF color = "TANGERINE" THEN "AMETHYST" ELSE "TANGERINE"
Won(color) == IF color = "TANGERINE" THEN "TANGERINE_WON" ELSE "AMETHYST_WON"
Occupied(b, sq) == b[sq] \in Pieces

\* the call of the step returned False and left board, turn and status alone
Refused ==
  /\ ret' = "False"
  /\ board' = board
  /\ turn' = turn
  /\ game_state' = game_state

\* the source lines of make_move's return False statements
RejectLines == {198, 201, 206, 209, 213, 218}

\* the step is an applied move (make_move returned True)
Applied == ret' = "True" /\ moves' = moves + 1

RECURSIVE Gcd(_, _)
Gcd(a, b) == IF b = 0 THEN a ELSE Gcd(b, a % b)

\* the squares strictly between start and end on the straight line joining them
Between(start, end) ==
  LET cs == ColumnsIndex(start[1])
      dc == ColumnsIndex(end[1]) - cs
      dr == end[2] - start[2]
      g == Gcd(Abs(dc), Abs(dr))
  IN IF g = 0 THEN {}
     ELSE {<<COLUMNS[cs + k * (dc \div g) + 1], start[2] + k * (dr \div g)>> : k \in 1..(g - 1)}

CuttlefishCount(color) ==
  Cardinality({sq \in Squares : board[sq] = Piece("Cuttlefish", color)})

(* -------------------------------- claims -------------------------------- *)

\* C1: once the status has left UNFINISHED, every later make_move call returns
\* False (from line 198) and the board, the turn and the status stay as they are.
C1_TerminalStatusIsFinal ==
  [][game_state # "UNFINISHED" => (Refused /\ line' = 198)]_vars

\* a call was made, and refused, after the game was won
C1_Witness ==
  /\ game_state = "TANGERINE_WON"
  /\ ret = "False"
  /\ line = 198
  /\ moved.target = Piece("Cuttlefish", "AMETHYST")

\* C2: an applied move onto the opponent's Cuttlefish sets the status to the win
\* of the side that moved; an applied move onto an empty square or onto any other
\* piece leaves it UNFINISHED.  The side whose Cuttlefish is taken never wins.
C2_CaptureDecidesWinner ==
  [][Applied =>
       LET target == Get(board, moved'.end)
       IN /\ board[moved'.start].color = turn
          /\ IF target.kind = "Cuttlefish"
             THEN /\ target.color = Other(turn)
                  /\ game_state' = Won(turn)
                  /\ game_state' # Won(target.color)
             ELSE game_state' = "UNFINISHED"]_vars

\* AMETHYST has just taken the TANGERINE Cuttlefish
C2_Witness ==
  /\ ret = "True"
  /\ moved.piece.color = "AMETHYST"
  /\ moved.target = Piece("Cuttlefish", "TANGERINE")
  /\ game_state = "AMETHYST_WON"

\* C3: a make_move call that returns False changes neither the occupant of any
\* square, nor the turn, nor the status.
C3_RefusedCallIsAtomic ==
  [][ret' = "False" => (board' = board /\ turn' = turn /\ game_state' = game_state)]_vars

\* a call got as far as the path scan, the last check, and was refused there
C3_Witness ==
  /\ ret = "False"
  /\ line = 218
  /\ moves > 0

\* C4: the turn starts at TANGERINE, every applied move is made by the side on
\* turn and hands the turn to the other side, and a refused call leaves the turn.
C4_TurnAlternates ==
  /\ turn = "TANGERINE"
  /\ [][/\ Applied => (moved'.piece.color = turn /\ turn' = Other(turn) /\ turn' # turn)
        /\ ret' = "False" => turn' = turn]_vars

\* two moves were applied, the second by AMETHYST, and TANGERINE is on turn again
C4_Witness ==
  /\ moves = 2
  /\ ret = "True"
  /\ moved.piece.color = "AMETHYST"
  /\ turn = "TANGERINE"

\* C5: in every reachable state, make_move from a start square that holds a
\* piece of the side that is not on turn reaches a return False, whatever the end
\* square, and a step that returns False leaves the board and the turn alone.
C5_WrongTurnRefused ==
  /\ [](\A start \in Squares :
          (Occupied(board, start) /\ board[start].color # turn) =>
            \A end \in Squares : ReturnLine(start, end) \in RejectLines)
  /\ [][line' \in RejectLines => (ret' = "False" /\ board' = board /\ turn' = turn)]_vars

\* a call was refused by the turn check
C5_Witness ==
  /\ ret = "False"
  /\ line = 206
  /\ game_state = "UNFINISHED"

\* C6: after an applied move onto an empty square, the end square holds the
\* piece that stood on the start square, the start square is empty, every other
\* square is as before, and the turn is the other side's.
C6_PlainMoveFrame ==
  [][(Applied /\ Get(board, moved'.end) = None) =>
       LET start == moved'.start
           end == moved'.end
       IN /\ Occupied(board, start)
          /\ board'[end] = board[start]
          /\ board'[start] = None
          /\ \A sq \in Squares \ {start, end} : board'[sq] = board[sq]
          /\ turn' = Other(turn)]_vars

\* a piece has just moved onto an empty square
C6_Witness ==
  /\ ret = "True"
  /\ moved.target = None
  /\ board[moved.end] = moved.piece
  /\ board[moved.start] = None

\* C7: in every reachable state, make_move onto an end square that holds a piece
\* of the same side as the piece on the start square reaches a return False, for
\* every archetype; a step that returns False leaves the board alone, and no
\* applied move takes a piece of the mover's own side.
C7_FriendlyTargetRefused ==
  /\ [](\A start \in Squares :
          Occupied(board, start) =>
            \A end \in Squares :
              (Occupied(board, end) /\ board[end].color = board[start].color)
              => ReturnLine(start, end) \in RejectLines)
  /\ [][/\ line' \in RejectLines => (ret' = "False" /\ board' = board)
        /\ Applied => Get(board, moved'.end).color # board[moved'.start].color]_vars

\* a call was refused by the friendly-piece check, in a state where a Wombat of
\* the side on turn has a legal shape onto a piece of its own side
C7_Witness ==
  /\ ret = "False"
  /\ line = 213
  /\ \E start \in CallSquares, end \in CallSquares :
       /\ board[start] = Piece("Wombat", turn)
       /\ Wombat_valid_move(start, end)
       /\ Occupied(board, end)
       /\ board[end].color = turn

\* C8: in every reachable state, make_move of a Chinchilla or an Emu reaches a
\* return False when some square strictly between start and end is occupied, by
\* either side, and a step that returns False changes nothing.
C8_BlockedSlideRefused ==
  /\ [](\A start \in Squares :
          (Occupied(board, start) /\ board[start].kind \in {"Chinchilla", "Emu"}) =>
            \A end \in Squares :
              (\E sq \in Between(start, end) : Occupied(board, sq))
              => ReturnLine(start, end) \in RejectLines)
  /\ [][line' \in RejectLines => Refused]_vars

\* a slide of the side on turn, legal in shape and not onto a friendly piece,
\* was refused by the path scan
C8_Witness ==
  /\ ret = "False"
  /\ line = 218
  /\ \E start \in CallSquares, end \in CallSquares :
       /\ Occupied(board, start)
       /\ board[start].kind = "Emu"
       /\ board[start].color = turn
       /\ Emu_valid_move(start, end)
       /\ ~(Occupied(board, end) /\ board[end].color = turn)
       /\ \E sq \in Between(start, end) : Occupied(board, sq)

\* the 4-square orthogonal Wombat move or the 2-square diagonal Cuttlefish move
JumpShape(piece, start, end) ==
  \/ /\ piece.kind = "Wombat"
     /\ \/ Dx(start, end) = 4 /\ Dy(start, end) = 0
        \/ Dx(start, end) = 0 /\ Dy(start, end) = 4
  \/ /\ piece.kind = "Cuttlefish"
     /\ Dx(start, end) = 2 /\ Dy(start, end) = 2

\* C9: a Wombat's 4-square orthogonal call and a Cuttlefish's 2-square diagonal
\* call reach the return True of line 227 whenever the piece's side is on turn,
\* the game is in progress and the end square holds no friendly piece, whatever
\* stands on the squares between.
C9_JumpsIgnoreOccupancy ==
  \A start \in Squares :
    (game_state = "UNFINISHED" /\ Occupied(board, start) /\ board[start].color = turn) =>
      \A end \in Squares :
        (/\ JumpShape(board[start], start, end)
         /\ ~(Occupied(board, end) /\ board[end].color = turn))
        => ReturnLine(start, end) = 227

\* a Wombat or a Cuttlefish has just jumped over an occupied square
C9_Witness ==
  /\ ret = "True"
  /\ JumpShape(moved.piece, moved.start, moved.end)
  /\ \E sq \in Between(moved.start, moved.end) : Occupied(board, sq)

\* C10: every square holds a piece or nothing, each side has at most one
\* Cuttlefish, and the status tells which Cuttlefish are on the board:
\* UNFINISHED both, TANGERINE_WON only TANGERINE's, AMETHYST_WON only AMETHYST's.
C10_StatusMatchesCuttlefish ==
  /\ \A sq \in Squares : board[sq] \in Pieces \cup {None, Absent}
  /\ CuttlefishCount("TANGERINE") <= 1
  /\ CuttlefishCount("AMETHYST") <= 1
  /\ CuttlefishCount("TANGERINE") + CuttlefishCount("AMETHYST") >= 1
  /\ game_state = "UNFINISHED" <=>
       (CuttlefishCount("TANGERINE") = 1 /\ CuttlefishCount("AMETHYST") = 1)
  /\ game_state = "TANGERINE_WON" <=>
       (CuttlefishCount("TANGERINE") = 1 /\ CuttlefishCount("AMETHYST") = 0)
  /\ game_state = "AMETHYST_WON" <=>
       (CuttlefishCount("TANGERINE") = 0 /\ CuttlefishCount("AMETHYST") = 1)

\* the AMETHYST Cuttlefish has been taken and the game is TANGERINE's
C10_Witness ==
  /\ game_state = "TANGERINE_WON"
  /\ CuttlefishCount("AMETHYST") = 0
  /\ CuttlefishCount("TANGERINE") = 1

\* the archetype the claims put on each column of a home row
HomeKind ==
  [a |-> "Chinchilla", b |-> "Wombat", c |-> "Emu", d |-> "Cuttlefish",
   e |-> "Emu", f |-> "Wombat", g |-> "Chinchilla"]

PieceCount(b) == Cardinality({sq \in Squares : Occupied(b, sq)})

\* C11: as long as no move has been applied to a new game, the status is
\* UNFINISHED, the turn is TANGERINE and the board holds exactly 14 pieces: on
\* columns a..g Chinchilla, Wombat, Emu, Cuttlefish, Emu, Wombat, Chinchilla, in
\* TANGERINE on row 1 and in AMETHYST on row 7; rows 2 to 6 are empty.
C11_NewGameLayout ==
  moves = 0 =>
    /\ game_state = "UNFINISHED"
    /\ turn = "TANGERINE"
    /\ PieceCount(board) = 14
    /\ \A sq \in Squares :
         /\ sq[2] = 1 => board[sq] = Piece(HomeKind[sq[1]], "TANGERINE")
         /\ sq[2] = 7 => board[sq] = Piece(HomeKind[sq[1]], "AMETHYST")
         /\ sq[2] \in 2..6 => ~Occupied(board, sq)

\* the game as constructed, before any call
C11_Witness ==
  /\ moves = 0
  /\ ret = "none"
  /\ board[<<"d", 7>>] = Piece("Cuttlefish", "AMETHYST")
  /\ board[<<"a", 1>>] = Piece("Chinchilla", "TANGERINE")

\* C12: in every reachable state make_move(start, end) ends with no error for
\* every pair of squares of the board, an empty start square and start = end
\* included, and every call made has returned True or False.
C12_NoThrownError ==
  /\ ret \in {"none", "True", "False"}
  /\ \A start \in Squares, end \in Squares : Exception(start, end) = "none"

\* a call from a square that a move has emptied (set to None) returned False
C12_Witness ==
  /\ ret = "False"
  /\ line = 201
  /\ \E sq \in Squares : board[sq] = None

\* an orthogonal slide of 2 or 3 squares
LongSlide(start, end) ==
  \/ Dx(start, end) = 0 /\ Dy(start, end) \in 2..3
  \/ Dy(start, end) = 0 /\ Dx(start, end) \in 2..3

\* C13: the friendly-piece and path checks come before the capture: an Emu slide
\* of 2 or 3 squares onto the opponent's Cuttlefish with an occupied square
\* between is refused at line 218, and a call refused there leaves the status
\* UNFINISHED and the board as it was; when a move is applied, the status is
\* decided by the piece that stood on the end square before the move (a moving
\* Cuttlefish decides nothing).
C13_CaptureAfterPathCheck ==
  /\ [](\A start \in Squares, end \in Squares :
          ( /\ game_state = "UNFINISHED"
            /\ board[start] = Piece("Emu", turn)
            /\ LongSlide(start, end)
            /\ board[end] = Piece("Cuttlefish", Other(turn))
            /\ \E sq \in Between(start, end) : Occupied(board, sq) )
          => ReturnLine(start, end) = 218)
  /\ [][line' = 218 => (Refused /\ game_state' = "UNFINISHED")]_vars
  /\ [][Applied =>
         LET target == Get(board, moved'.end)
         IN game_state' = (IF target.kind = "Cuttlefish"
                           THEN Won(Other(target.color))
                           ELSE game_state)]_vars

\* the AMETHYST Emu on b6 was refused the slide onto the TANGERINE Cuttlefish on
\* b3 because of the Wombat on b5; the Cuttlefish is still there
C13_Witness ==
  /\ ret = "False"
  /\ line = 218
  /\ game_state = "UNFINISHED"
  /\ turn = "AMETHYST"
  /\ board[<<"b", 6>>] = Piece("Emu", "AMETHYST")
  /\ board[<<"b", 5>>] = Piece("Wombat", "TANGERINE")
  /\ board[<<"b", 3>>] = Piece("Cuttlefish", "TANGERINE")

\* the number of a column, 1 for a to 7 for g
ColNo == [a |-> 1, b |-> 2, c |-> 3, d |-> 4, e |-> 5, f |-> 6, g |-> 7]

\* the shape rule of each archetype on the absolute column and row differences
ShapeRule(kind, dc, dr) ==
  CASE kind = "Chinchilla" -> (IF dc >= dr THEN dc ELSE dr) = 1
    [] kind = "Wombat" -> <<dc, dr>> \in {<<4, 0>>, <<0, 4>>, <<1, 1>>}
    [] kind = "Emu" -> \/ dc = 0 /\ dr \in 1..3
                       \/ dr = 0 /\ dc \in 1..3
                       \/ dc = 1 /\ dr = 1
    [] kind = "Cuttlefish" -> <<dc, dr>> \in {<<2, 2>>, <<1, 0>>, <<0, 1>>}

ShapeAccepts(kind, start, end) ==
  ShapeRule(kind, Abs(ColNo[end[1]] - ColNo[start[1]]), Abs(end[2] - start[2]))

\* C14: make_move refuses for the listed reasons only: while the status is
\* UNFINISHED, a call whose start square holds a piece of the side on turn, whose
\* shape the piece's rule accepts, whose end square is empty or holds an opposing
\* piece and, for a Chinchilla or an Emu, whose squares strictly between are all
\* empty, reaches the return True of line 227; and a call that reaches it puts
\* the piece on the end square, empties the start square and passes the turn.
C14_LegalMoveAccepted ==
  /\ [](\A start \in Squares :
          (game_state = "UNFINISHED" /\ Occupied(board, start) /\ board[start].color = turn) =>
            \A end \in Squares :
              ( /\ ShapeAccepts(board[start].kind, start, end)
                /\ ~(Occupied(board, end) /\ board[end].color = turn)
                /\ board[start].kind \in {"Chinchilla", "Emu"} =>
                     \A sq \in Between(start, end) : ~Occupied(board, sq) )
              => ReturnLine(start, end) = 227)
  /\ [][line' = 227 =>
         /\ ret' = "True"
         /\ board' = [board EXCEPT ![moved'.end] = board[moved'.start],
                                   ![moved'.start] = None]
         /\ turn' = Other(turn)]_vars

\* an Emu slid 2 or 3 squares over empty squares onto an opposing piece
C14_Witness ==
  /\ ret = "True"
  /\ line = 227
  /\ moved.piece.kind = "Emu"
  /\ LongSlide(moved.start, moved.end)
  /\ moved.target \in Pieces
  /\ moved.target.color # moved.piece.color

\* valid_move against the rules, over all squares, archetypes and sides
ValidMoveIsShapeRule ==
  \A start \in Squares, end \in Squares, k \in Kinds, c \in Colors :
    /\ valid_move(Piece(k, c), start, end) = ShapeAccepts(k, start, end)
    /\ start = end => ~valid_move(Piece(k, c), start, end)

\* C15: for every pair of squares and each side, each archetype's valid_move
\* is true exactly when the absolute column and row differences satisfy its rule
\* (Chinchilla: the larger is 1; Wombat: (4,0), (0,4) or (1,1); Emu: (0,1..3),
\* (1..3,0) or (1,1); Cuttlefish: (2,2), (1,0) or (0,1)); none accepts
\* start = end; and in every reachable state a call of the side on turn is
\* refused at line 209 exactly when the rule does not hold, whatever the board.
C15_ShapeRules ==
  /\ ValidMoveIsShapeRule
  /\ \A start \in Squares :
       (game_state = "UNFINISHED" /\ Occupied(board, start) /\ board[start].color = turn) =>
         \A end \in Squares :
           (ReturnLine(start, end) = 209) = ~ShapeAccepts(board[start].kind, start, end)

\* after a Wombat's move, which its rule accepted, a call was refused for its shape
C15_Witness ==
  /\ ret = "False"
  /\ line = 209
  /\ moved.piece.kind = "Wombat"

\* C16: the move that takes a Cuttlefish switches the turn like any other: in
\* the step that ends the game the turn passes to the side that lost, and
\* whenever the status is a win the turn is the losing side's, from then on.
C16_TurnPassesOnWinningMove ==
  /\ [](\A c \in Colors : game_state = Won(c) => turn = Other(c))
  /\ [][(game_state = "UNFINISHED" /\ game_state' # "UNFINISHED") =>
         /\ Applied
         /\ game_state' = Won(turn)
         /\ turn' = Other(turn)]_vars
  /\ [][game_state # "UNFINISHED" => turn' = turn]_vars

\* TANGERINE lost its Cuttlefish, is on turn, and has made a call since
C16_Witness ==
  /\ game_state = "AMETHYST_WON"
  /\ turn = "TANGERINE"
  /\ moved.target = Piece("Cuttlefish", "TANGERINE")
  /\ ret = "False"
  /\ line = 198

\* the scan of _path_clear from start to end arrives at end, having looked at
\* no more than 2 squares, all of them squares of the board strictly between
ScanStaysOnBoard(start, end) ==
  LET v == path_visits(start, end)
  IN /\ v.arrived
     /\ Len(v.visited) <= 2
     /\ \A i \in 1..Len(v.visited) :
          /\ v.visited[i][1] \in 0..6
          /\ v.visited[i][2] \in Rows
          /\ <<COLUMNS[v.visited[i][1] + 1], v.visited[i][2]>> \in Between(start, end)

ScanStaysOnBoardEverywhere ==
  \A start \in Squares, end \in Squares :
    (Chinchilla_valid_move(start, end) \/ Emu_valid_move(start, end))
    => ScanStaysOnBoard(start, end)

\* C17: for every pair of squares that the Chinchilla or the Emu shape rule
\* accepts, and so for every applied Chinchilla or Emu move, the scan of
\* _path_clear ends: stepping by the unit steps from start it arrives exactly at
\* end after visiting at most 2 squares, each a square of the 7x7 board.
C17_PathScanTerminates ==
  /\ ScanStaysOnBoardEverywhere
  /\ (ret = "True" /\ moved.piece.kind \in {"Chinchilla", "Emu"})
     => ScanStaysOnBoard(moved.start, moved.end)

\* an Emu moved 3 squares to an empty square: the scan visited 2 squares
C17_Witness ==
  /\ ret = "True"
  /\ moved.piece.kind = "Emu"
  /\ moved.target = None
  /\ Len(path_visits(moved.start, moved.end).visited) = 2

\* the number of squares of board b holding piece p
CountOf(b, p) == Cardinality({sq \in Squares : b[sq] = p})

\* the number of pieces of a side on board b
SideCount(b, color) == Cardinality({sq \in Squares : Occupied(b, sq) /\ b[sq].color = color})

\* C18: play creates and changes no piece: no side ever has more than its 7
\* pieces; a call that returns False leaves every square as it was; an applied
\* move takes off the board exactly the piece that stood on the end square, if
\* any, which is an opposing piece, and leaves the number of pieces of every
\* other archetype and side, the mover's included, as it was; the piece that
\* moved arrives with its archetype and side.
C18_PiecesConserved ==
  /\ [](\A c \in Colors : SideCount(board, c) <= 7)
  /\ [][ret' = "False" => board' = board]_vars
  /\ [][Applied =>
         LET target == Get(board, moved'.end)
             piece == board[moved'.start]
         IN /\ piece \in Pieces
            /\ board'[moved'.end] = piece
            /\ target \in Pieces => target.color = Other(piece.color)
            /\ \A p \in Pieces :
                 CountOf(board', p) = CountOf(board, p) - (IF p = target THEN 1 ELSE 0)
            /\ SideCount(board', piece.color) = SideCount(board, piece.color)
            /\ SideCount(board', Other(piece.color)) >= SideCount(board, Other(piece.color)) - 1]_vars

\* a capture that did not end the game: the side that lost the piece has 6 left
C18_Witness ==
  /\ ret = "True"
  /\ moved.target \in Pieces
  /\ moved.target.kind # "Cuttlefish"
  /\ SideCount(board, moved.target.color) = 6
  /\ SideCount(board, moved.piece.color) = 7

\* a move of one square in any of the 8 directions
OneSquare(start, end) ==
  (IF Dx(start, end) >= Dy(start, end) THEN Dx(start, end) ELSE Dy(start, end)) = 1

\* C19: the path check can refuse nothing but an Emu's orthogonal slide of 2 or
\* 3 squares: in every reachable state, for every Chinchilla move and every
\* 1-square Emu move that the shape rule accepts there is no square strictly
\* between and _path_clear returns True, and every call that leaves make_move by
\* line 218 is an Emu's orthogonal call of 2 or 3 squares.
C19_OnlyLongSlidesBlocked ==
  /\ \A start \in Squares, end \in Squares :
       ( \/ Chinchilla_valid_move(start, end)
         \/ Emu_valid_move(start, end) /\ OneSquare(start, end) )
       => /\ Between(start, end) = {}
          /\ path_clear(board, start, end)
  /\ \A start \in Squares :
       Occupied(board, start) =>
         \A end \in Squares :
           ReturnLine(start, end) = 218
           => board[start].kind = "Emu" /\ LongSlide(start, end)

\* a Chinchilla's 1-square move was applied
C19_Witness ==
  /\ ret = "True"
  /\ moved.piece.kind = "Chinchilla"
  /\ OneSquare(moved.start, moved.end)
  /\ path_clear(board, moved.start, moved.end)

\* make_move(start, end) returns True and is followed by a step that satisfies
\* then, an action or TRUE
Play(start, end, then) ==
  /\ make_move(start, end, MaxWinMoves)
  /\ ret' = "True"
  /\ then

\* three calls that each return True and end with TANGERINE_WON
TangerineCanWin ==
  ENABLED Play(<<"d", 1>>, <<"d", 2>>,
    (ENABLED Play(<<"d", 7>>, <<"b", 5>>,
      (ENABLED Play(<<"b", 1>>, <<"b", 5>>, game_state' = "TANGERINE_WON"))'))')

\* two calls that each return True and end with AMETHYST_WON
AmethystCanWin ==
  ENABLED Play(<<"d", 1>>, <<"b", 3>>,
    (ENABLED Play(<<"b", 7>>, <<"b", 3>>, game_state' = "AMETHYST_WON"))')

\* C20: either side can win: from the new game (no move applied yet) there is
\* a sequence of make_move calls, each returning True, that ends with the status
\* TANGERINE_WON, and another that ends with AMETHYST_WON.
C20_EitherSideCanWin ==
  moves = 0 => (TangerineCanWin /\ AmethystCanWin)

\* TANGERINE has won with its third call that returned True
C20_Witness ==
  /\ game_state = "TANGERINE_WON"
  /\ ret = "True"
  /\ moves = 3
  /\ moved.piece.color = "TANGERINE"

====
